---- MODULE Spec2Model ----
(***************************************************************************)
(* Multi-account Gmail OAuth authorization of the Daraz OTP fetcher:       *)
(* backend/auth.js (the pending-authorization table, the expiry sweep,     *)
(* getAuthorizedClient / getNewToken / exchangeCodeForToken /              *)
(* getAllAuthorizedClients) and the /oauth2callback and /api/otps          *)
(* handlers of backend/server.js.                                          *)
(*                                                                         *)
(* Node runs every handler to its next await without interleaving, so each *)
(* action below is one such run-to-suspension segment.  Time is counted in *)
(* minutes; Date.now() is the variable now.                                *)
(***************************************************************************)
EXTENDS Integers, Sequences, FiniteSets, TLC

(* ---------------- bounds of the model ---------------- *)
MaxBatches == 2        \* concurrent /api/otps requests
MaxCallbacks == 2      \* /oauth2callback requests
MaxTime == 20          \* last minute the clock reaches
TickMinutes == 5       \* granularity by which the clock advances
MaxRequests == 4       \* HTTP requests of both kinds in one run
MaxEmailLen == 4       \* longest address the state round trip is tried on

(* ---------------- program constants ---------------- *)
TTL == 10              \* 10 * 60 * 1000 ms, in minutes

\* The configured accounts (three of the five of the source), written as
\* character sequences so that getTokenPath can be computed on them.
ACCOUNTS ==
  << <<"a", "@", "g">>, <<"b", "@", "g">>, <<"c", "@", "g">> >>

NumAccounts == Len(ACCOUNTS)
Emails == {ACCOUNTS[i] : i \in 1..NumAccounts}
\* an address that is not configured, as a callback's state may carry
UnknownEmail == <<"x", "@", "g">>

Batches == 1..MaxBatches
Callbacks == 1..MaxCallbacks
\* one promise (and one OAuth2 client object) per getNewToken call:
\* the call made by batch b for account number i
Waiters == Batches \X (1..NumAccounts)
NoWaiter == <<0, 0>>

(* ---------------- pure helpers ---------------- *)
\* email.replace(/[@.]/g, '_') joined into token_<safeEmail>.json
getTokenPath(email) ==
  [k \in 1..Len(email) |-> IF email[k] \in {"@", "."} THEN "_" ELSE email[k]]

Paths == {getTokenPath(e) : e \in Emails}

\* readJsonFile: null for a missing file ("absent") and for one whose read or
\* JSON.parse throws ("corrupt"); the throw is caught inside
readJsonFile_AlwaysNull(content) == "null"
readJsonFile_Strict(content) ==
  IF content = "absent" THEN "null" ELSE content
readJsonFile(content) ==
  IF content \in {"absent", "corrupt"} THEN "null" ELSE content

\* loadOAuthClient: the error it throws, or "ok"
loadOAuthClient(cred) ==
  CASE cred = "missing" -> "Missing credentials.json"
    [] cred = "noConfig" -> "Invalid credentials.json format"
    [] cred = "noClientId" -> "credentials.json is missing client_id or client_secret"
    [] OTHER -> "ok"

\* The characters of the model and their byte values (ASCII).
Byte ==
  [ch \in {"a", "b", "c", "g", "x", "@", "."} |->
     CASE ch = "a" -> 97 [] ch = "b" -> 98 [] ch = "c" -> 99 [] ch = "g" -> 103
       [] ch = "x" -> 120 [] ch = "@" -> 64 [] ch = "." -> 46]
\* toString('utf8') of one byte; a byte that is no character of the model
\* (or no valid UTF-8) is shown as "?"
CharOf(n) ==
  IF \E ch \in DOMAIN Byte : Byte[ch] = n
  THEN CHOOSE ch \in DOMAIN Byte : Byte[ch] = n
  ELSE "?"

\* A base64 text is a sequence of indices 0..63 into the base64 alphabet;
\* Pad is the character "=".
Pad == 64

\* toString('hex') read as base64 text: the digits 0-9 are the base64
\* characters 52..61 and a-f are 26..31
encodeState_Hex(email) ==
  LET digit(d) == IF d < 10 THEN 52 + d ELSE 16 + d
  IN [k \in 1..2 * Len(email) |->
        LET byte == Byte[email[(k + 1) \div 2]]
        IN IF k % 2 = 1 THEN digit(byte \div 16) ELSE digit(byte % 16)]

\* Buffer.from(email).toString('base64'): three bytes give four characters,
\* the last group is padded with "="
encodeState(email) ==
  LET n == Len(email)
      byte(k) == IF k <= n THEN Byte[email[k]] ELSE 0
      sextet(g, r) ==
        LET b1 == byte(3 * g - 2)
            b2 == byte(3 * g - 1)
            b3 == byte(3 * g)
        IN CASE r = 1 -> b1 \div 4
             [] r = 2 -> (b1 % 4) * 16 + b2 \div 16
             [] r = 3 -> IF 3 * g - 1 > n THEN Pad ELSE (b2 % 16) * 4 + b3 \div 64
             [] OTHER -> IF 3 * g > n THEN Pad ELSE b3 % 64
  IN [k \in 1..4 * ((n + 2) \div 3) |-> sextet((k + 3) \div 4, k % 4)]

NoState == <<>>
GarbageState == <<Pad>>
\* Buffer.from(state, 'base64').toString('utf8') under if (state): null when
\* state is absent or empty; the decoder stops at the first "=", skips what
\* is no base64 character, and turns every complete 8 bits into a byte
decodeState(state) ==
  IF state = NoState THEN <<"null">>
  ELSE LET pads == {k \in 1..Len(state) : state[k] = Pad}
           stop == IF pads = {} THEN Len(state) + 1
                   ELSE CHOOSE k \in pads : \A j \in pads : k <= j
           IsB64(x) == x \in 0..63
           data == SelectSeq(SubSeq(state, 1, stop - 1), IsB64)
           byte(k) ==
             LET g == (k - 1) \div 3
                 s1 == data[4 * g + 1]
                 s2 == data[4 * g + 2]
                 s3 == data[4 * g + 3]
                 s4 == data[4 * g + 4]
             IN CASE (k - 1) % 3 = 0 -> s1 * 4 + s2 \div 16
                  [] (k - 1) % 3 = 1 -> (s2 % 16) * 16 + s3 \div 4
                  [] OTHER -> (s3 % 4) * 64 + s4
       IN [k \in 1..(Len(data) * 6) \div 8 |-> CharOf(byte(k))]

\* !email of the handler: null and the empty string
Falsy_NullOnly(email) == email = <<"null">>
Falsy(email) == email = <<"null">> \/ email = <<>>

\* the token the provider issues in answer to the exchange of callback c
TokenOf(c) == "tok" \o ToString(c)

\* resolve / reject of a promise: only the first call settles it
Settle(p, w, outcome) ==
  IF p[w] = "pending" THEN [p EXCEPT ![w] = outcome] ELSE p

\* pendingAuths.set(email, entry), .delete(email), .get(email)
MapSet_PerWaiter(m, k, v) ==
  [x \in DOMAIN m \cup {<<k, v.w>>} |-> IF x = <<k, v.w>> THEN v ELSE m[x]]
MapSet_KeepsFirst(m, k, v) ==
  [x \in DOMAIN m \cup {k} |-> IF x \in DOMAIN m THEN m[x] ELSE v]
MapSet(m, k, v) == [x \in DOMAIN m \cup {k} |-> IF x = k THEN v ELSE m[x]]
MapDelete_Keeps(m, k) == m
MapDelete_Clears(m, k) == <<>>
MapDelete(m, k) == [x \in DOMAIN m \ {k} |-> m[x]]
Undefined == [w |-> NoWaiter, timestamp |-> -1]
MapGet_AnyEntry(m, k) ==
  IF k \in DOMAIN m THEN m[k]
  ELSE IF DOMAIN m # {} THEN m[CHOOSE x \in DOMAIN m : TRUE] ELSE Undefined
MapGet(m, k) == IF k \in DOMAIN m THEN m[k] ELSE Undefined

(* ---------------- error messages ---------------- *)
TimeoutError == "Authentication timeout. Please try again."
ExchangeError == "Failed to retrieve access token"
NoPendingError == "No pending authentication found"

(* ---------------- responses of /oauth2callback ---------------- *)
NoResp == [status |-> 0, title |-> "", message |-> ""]
RespProviderError == [status |-> 400, title |-> "Authorization Error", message |-> ""]
RespMissingCode == [status |-> 400, title |-> "Missing Authorization Code", message |-> ""]
RespInvalidRequest == [status |-> 400, title |-> "Invalid Request", message |-> ""]
RespSuccess == [status |-> 200, title |-> "Authorization Successful", message |-> ""]
RespNoPending_SameAsExchange ==
  [status |-> 500, title |-> "Error", message |-> ExchangeError]
RespNoPending ==
  [status |-> 500, title |-> "Error", message |-> NoPendingError]
RespExchangeFailed ==
  [status |-> 500, title |-> "Error", message |-> ExchangeError]

\* the query strings a callback request may carry (the provider sends the
\* state back with its error parameter too)
Queries ==
  {[error |-> TRUE, code |-> FALSE, state |-> encodeState(ACCOUNTS[1])],
   [error |-> FALSE, code |-> FALSE, state |-> NoState],
   [error |-> FALSE, code |-> TRUE, state |-> NoState],
   [error |-> FALSE, code |-> TRUE, state |-> GarbageState],
   [error |-> FALSE, code |-> TRUE, state |-> encodeState(UnknownEmail)]}
  \cup {[error |-> FALSE, code |-> TRUE, state |-> encodeState(e)] : e \in Emails}
\* those that carry a code and the state of some account, configured or not:
\* the redirects that reach exchangeCodeForToken
CodeQueries == {q \in Queries : ~q.error /\ q.code /\ ~Falsy(decodeState(q.state))}
NoQuery == [error |-> FALSE, code |-> FALSE, state |-> NoState]

IdleCallback ==
  [pc |-> "idle", query |-> NoQuery, email |-> <<>>, w |-> NoWaiter, resp |-> NoResp]

\* the token files the process may find when it starts: the first account's
\* is missing or present, the second's unparseable or present, the third's
\* present
InitialStores ==
  {tf \in [Paths -> {"absent", "corrupt", "stored"}] :
     /\ tf[getTokenPath(ACCOUNTS[1])] \in {"absent", "stored"}
     /\ tf[getTokenPath(ACCOUNTS[2])] \in {"corrupt", "stored"}
     /\ tf[getTokenPath(ACCOUNTS[3])] = "stored"}

(* ---------------- answers of /api/otps ---------------- *)
NoAnswer == [status |-> 0, success |-> FALSE, message |-> "", data |-> <<>>]
NoAccountsError ==
  "No Gmail accounts authenticated. Please authenticate at least one account."
AnswerNoAccounts ==
  [status |-> 500, success |-> FALSE, message |-> NoAccountsError, data |-> <<>>]
AnswerData(allOtps) ==
  [status |-> 200, success |-> TRUE, message |-> "", data |-> allOtps]

\* The valid OTP mails Gmail holds for each account, newest first as
\* fetchDarazOtpEmails returns them; timeReceived is a number here.
Mail ==
  << << [accountEmail |-> ACCOUNTS[1], timeReceived |-> 30] >>,
     << [accountEmail |-> ACCOUNTS[2], timeReceived |-> 40],
        [accountEmail |-> ACCOUNTS[2], timeReceived |-> 10] >>,
     << [accountEmail |-> ACCOUNTS[3], timeReceived |-> 30] >> >>

\* allOtps.sort((a, b) => new Date(b.timeReceived) - new Date(a.timeReceived)):
\* newest first, mails of equal time in the order they had (the sort is stable)
RECURSIVE SortNewestFirst(_)
SortNewestFirst(recs) ==
  IF Len(recs) <= 1 THEN recs
  ELSE LET rest == SortNewestFirst(Tail(recs))
           x == Head(recs)
           before == {k \in 1..Len(rest) : rest[k].timeReceived > x.timeReceived}
           n == Cardinality(before)
       IN SubSeq(rest, 1, n) \o <<x>> \o SubSeq(rest, n + 1, Len(rest))

VARIABLES
  credentials,   \* state of credentials.json
  tokenFile,     \* content of each token_<safeEmail>.json
  pendingAuths,  \* the Map email -> { oAuth2Client, resolve, reject, timestamp }
  now,           \* Date.now(), in minutes
  pc,            \* where each /api/otps request stands in getAllAuthorizedClients
  idx,           \* its position in the for loop over ACCOUNTS
  clients,       \* its clients array
  promise,       \* state of the promise returned by each getNewToken call
  clientCred,    \* credentials set on each call's oAuth2Client
  cb,            \* the /oauth2callback requests
  otps           \* the answer each /api/otps request has sent, with the
                 \* accounts whose fetch threw for it

\* the requests received so far
Requests ==
  Cardinality({b \in Batches : pc[b] # "idle"})
    + Cardinality({c \in Callbacks : cb[c].pc # "idle"})

vars == <<credentials, tokenFile, pendingAuths, now, pc, idx, clients,
          promise, clientCred, cb, otps>>

Init ==
  /\ credentials \in {"valid", "missing", "noConfig", "noClientId"}
  /\ tokenFile \in InitialStores
  /\ pendingAuths = <<>>
  /\ now = 0
  /\ pc = [b \in Batches |-> "idle"]
  /\ idx = [b \in Batches |-> 1]
  /\ clients = [b \in Batches |-> <<>>]
  /\ promise = [w \in Waiters |-> "none"]
  /\ clientCred = [w \in Waiters |-> "none"]
  /\ cb = [c \in Callbacks |-> IdleCallback]
  /\ otps = [b \in Batches |-> [answer |-> NoAnswer, failed |-> {}]]

(* ---------------- /api/otps -> getAllAuthorizedClients ---------------- *)
\* getAuthorizedClient(email) as far as it runs without yielding: it throws
\* what loadOAuthClient throws, returns the client seeded with the stored
\* token, or goes into getNewToken
getAuthorizedClient_IgnoresToken(tf, email) ==
  IF loadOAuthClient(credentials) # "ok"
  THEN [kind |-> "throw", token |-> "none"]
  ELSE [kind |-> "getNewToken", token |-> "none"]

getAuthorizedClient(tf, email) ==
  LET token == readJsonFile(tf[getTokenPath(email)])
  IN IF loadOAuthClient(credentials) # "ok"
     THEN [kind |-> "throw", token |-> "none"]
     ELSE IF token # "null"
     THEN [kind |-> "client", token |-> token]
     ELSE [kind |-> "getNewToken", token |-> "none"]

\* The for loop of getAllAuthorizedClients from account number i on, as far
\* as it runs without yielding to the event loop: a throw is caught and the
\* loop goes on, a returned client is pushed, and getNewToken suspends the
\* loop at await open(authUrl).  cl is the clients array, cc the credentials
\* set on the clients.
RECURSIVE forLoop(_, _, _, _, _)
forLoop(b, i, cl, cc, tf) ==
  IF i > NumAccounts THEN [pc |-> "done", idx |-> i, clients |-> cl, cc |-> cc]
  ELSE LET email == ACCOUNTS[i]
           r == getAuthorizedClient(tf, email)
       IN IF r.kind = "throw"
          THEN forLoop(b, i + 1, cl, cc, tf)
          ELSE IF r.kind = "client"
          THEN forLoop(b, i + 1, Append(cl, [email |-> email, auth |-> <<b, i>>]),
                       [cc EXCEPT ![<<b, i>>] = r.token], tf)
          ELSE [pc |-> "opening", idx |-> i, clients |-> cl, cc |-> cc]

\* The continuation of await getAuthorizedClient(...) once promise p has
\* settled: push the client or catch the error, then go on with the loop.
\* Promise reactions are microtasks, so this runs before any other event.
awaitAuth_NoCatch(b, p, cc, tf) ==
  LET w == <<b, idx[b]>>
  IN IF pc[b] = "waiting" /\ p[w] = "resolved"
     THEN forLoop(b, idx[b] + 1,
                  Append(clients[b], [email |-> ACCOUNTS[idx[b]], auth |-> w]), cc, tf)
     ELSE IF pc[b] = "waiting" /\ p[w] # "pending"
     THEN [pc |-> "threw", idx |-> idx[b], clients |-> clients[b], cc |-> cc]
     ELSE [pc |-> pc[b], idx |-> idx[b], clients |-> clients[b], cc |-> cc]

awaitAuth(b, p, cc, tf) ==
  LET w == <<b, idx[b]>>
  IN IF pc[b] = "waiting" /\ p[w] # "pending"
     THEN forLoop(b, idx[b] + 1,
                  IF p[w] = "resolved"
                  THEN Append(clients[b], [email |-> ACCOUNTS[idx[b]], auth |-> w])
                  ELSE clients[b],
                  cc, tf)
     ELSE [pc |-> pc[b], idx |-> idx[b], clients |-> clients[b], cc |-> cc]

\* every batch whose awaited promise has settled in this step goes on
Resume(p, cc, tf) ==
  LET r == [b \in Batches |-> awaitAuth(b, p, cc, tf)]
  IN /\ pc' = [b \in Batches |-> r[b].pc]
     /\ idx' = [b \in Batches |-> r[b].idx]
     /\ clients' = [b \in Batches |-> r[b].clients]
     /\ clientCred' = [w \in Waiters |-> r[w[1]].cc[w]]

\* a request for /api/otps arrives: const clients = []; the loop starts
getAllAuthorizedClients(b) ==
  /\ pc[b] = "idle"
  /\ IF b = 1 THEN TRUE ELSE pc[b - 1] # "idle"
  /\ Requests < MaxRequests
  /\ LET r == forLoop(b, 1, <<>>, clientCred, tokenFile)
     IN /\ pc' = [pc EXCEPT ![b] = r.pc]
        /\ idx' = [idx EXCEPT ![b] = r.idx]
        /\ clients' = [clients EXCEPT ![b] = r.clients]
        /\ clientCred' = r.cc
  /\ UNCHANGED <<credentials, tokenFile, pendingAuths, now, promise, cb, otps>>

\* getNewToken after open(authUrl) has returned or thrown: the promise is
\* created and its handlers are stored under the email
getNewToken(b) ==
  /\ pc[b] = "opening"
  /\ now + TTL + TickMinutes <= MaxTime
  /\ LET email == ACCOUNTS[idx[b]]
         w == <<b, idx[b]>>
     IN /\ promise' = [promise EXCEPT ![w] = "pending"]
        /\ pendingAuths' = MapSet(pendingAuths, email, [w |-> w, timestamp |-> now])
  /\ pc' = [pc EXCEPT ![b] = "waiting"]
  /\ UNCHANGED <<credentials, tokenFile, now, idx, clients, clientCred, cb, otps>>

(* ---------------- the setInterval sweep and the clock ---------------- *)
\* now - data.timestamp > 10 * 60 * 1000
Expired_AtTTL(p, t) == {e \in DOMAIN p : t - p[e].timestamp >= TTL}
Expired(p, t) == {e \in DOMAIN p : t - p[e].timestamp > TTL}

sweep ==
  LET gone == Expired(pendingAuths, now)
      p == [w \in Waiters |->
              IF (\E e \in gone : pendingAuths[e].w = w) /\ promise[w] = "pending"
              THEN TimeoutError ELSE promise[w]]
  IN /\ pendingAuths' = [e \in DOMAIN pendingAuths \ gone |-> pendingAuths[e]]
     /\ promise' = p
     /\ Resume(p, clientCred, tokenFile)
     /\ UNCHANGED <<credentials, tokenFile, now, cb, otps>>

Tick ==
  /\ now + TickMinutes <= MaxTime
  /\ pendingAuths # <<>>
  /\ now' = now + TickMinutes
  /\ UNCHANGED <<credentials, tokenFile, pendingAuths, pc, idx, clients,
                 promise, clientCred, cb, otps>>

(* ---------------- /oauth2callback ---------------- *)
\* a redirect carrying the query q arrives: the handler up to its response or
\* to the getToken call of exchangeCodeForToken
\* a handler that gives up the account's authorization when the provider
\* reports an error
oauth2callback_ErrorRejects(c, q) ==
  /\ cb[c].pc = "idle"
  /\ IF c = 1 THEN TRUE ELSE cb[c - 1].pc # "idle"
  /\ Requests < MaxRequests
  /\ LET email == decodeState(q.state)
         req == [cb[c] EXCEPT !.query = q]
     IN /\ cb' = [cb EXCEPT ![c] =
             IF q.error THEN [req EXCEPT !.pc = "done", !.resp = RespProviderError]
             ELSE IF ~q.code THEN [req EXCEPT !.pc = "done", !.resp = RespMissingCode]
             ELSE IF Falsy(email) THEN [req EXCEPT !.pc = "done", !.resp = RespInvalidRequest]
             ELSE IF MapGet(pendingAuths, email) = Undefined
             THEN [req EXCEPT !.pc = "done", !.resp = RespNoPending]
             ELSE [req EXCEPT !.pc = "exchanging", !.email = email,
                              !.w = MapGet(pendingAuths, email).w]]
        /\ pendingAuths' = IF q.error THEN MapDelete(pendingAuths, email)
                           ELSE pendingAuths
  /\ UNCHANGED <<credentials, tokenFile, now, pc, idx, clients,
                 promise, clientCred, otps>>
oauth2callback(c, q) ==
  /\ cb[c].pc = "idle"
  /\ IF c = 1 THEN TRUE ELSE cb[c - 1].pc # "idle"
  /\ Requests < MaxRequests
  /\ LET email == decodeState(q.state)
         req == [cb[c] EXCEPT !.query = q]
     IN cb' = [cb EXCEPT ![c] =
          IF q.error THEN [req EXCEPT !.pc = "done", !.resp = RespProviderError]
          ELSE IF ~q.code THEN [req EXCEPT !.pc = "done", !.resp = RespMissingCode]
          ELSE IF Falsy(email) THEN [req EXCEPT !.pc = "done", !.resp = RespInvalidRequest]
          ELSE IF MapGet(pendingAuths, email) = Undefined
          THEN [req EXCEPT !.pc = "done", !.resp = RespNoPending]
          ELSE [req EXCEPT !.pc = "exchanging", !.email = email,
                           !.w = MapGet(pendingAuths, email).w]]
  /\ UNCHANGED <<credentials, tokenFile, pendingAuths, now, pc, idx, clients,
                 promise, clientCred, otps>>

\* writeJsonFile(filePath, data): the file as it is afterwards, and whether
\* the call threw; a failing fs.writeFileSync is caught and logged
writeJsonFile_LosesFile(tf, path, data, ok) ==
  [store |-> [tf EXCEPT ![path] = IF ok THEN data ELSE "absent"], threw |-> FALSE]
writeJsonFile_Rethrows(tf, path, data, ok) ==
  [store |-> IF ok THEN [tf EXCEPT ![path] = data] ELSE tf, threw |-> ~ok]
writeJsonFile(tf, path, data, ok) ==
  [store |-> IF ok THEN [tf EXCEPT ![path] = data] ELSE tf, threw |-> FALSE]

\* the callback of oAuth2Client.getToken, with the continuations it wakes
\* (the awaiting loop and the handler's response); an exception leaving the
\* callback would skip resolve and resolveToken
exchangeCodeForToken(c, err, writeOk) ==
  /\ cb[c].pc = "exchanging"
  /\ LET email == cb[c].email
         w == cb[c].w
         wr == IF err THEN [store |-> tokenFile, threw |-> FALSE]
               ELSE writeJsonFile(tokenFile, getTokenPath(email), TokenOf(c), writeOk)
         p == IF wr.threw THEN promise
              ELSE Settle(promise, w, IF err THEN ExchangeError ELSE "resolved")
         cc == IF err THEN clientCred ELSE [clientCred EXCEPT ![w] = TokenOf(c)]
         tf == wr.store
     IN /\ pendingAuths' = MapDelete(pendingAuths, email)
        /\ tokenFile' = tf
        /\ promise' = p
        /\ Resume(p, cc, tf)
        /\ cb' = [cb EXCEPT ![c] = [@ EXCEPT !.pc = "done", !.email = <<>>, !.w = NoWaiter,
                     !.resp = IF wr.threw THEN NoResp
                              ELSE IF err THEN RespExchangeFailed ELSE RespSuccess]]
  /\ UNCHANGED <<credentials, now, otps>>

(* ---------------- /api/otps after getAllAuthorizedClients ---------------- *)
\* what the map callback of the handler returns for one client: the mails
\* fetchDarazOtpEmails returns, or [] when it throws ("Failed to list Gmail
\* messages"), the catch of the callback
fetchResult_Rethrows(clientInfo, fails) ==
  [threw |-> fails, otps |-> IF fails THEN <<>> ELSE Mail[clientInfo.auth[2]]]
fetchResult(clientInfo, fails) ==
  [threw |-> FALSE, otps |-> IF fails THEN <<>> ELSE Mail[clientInfo.auth[2]]]

\* results.forEach((otps) => allOtps.push(...otps))
RECURSIVE Combine(_, _, _)
Combine(cl, failed, k) ==
  IF k > Len(cl) THEN <<>>
  ELSE fetchResult(cl[k], cl[k].auth[2] \in failed).otps \o Combine(cl, failed, k + 1)

\* The rest of the /api/otps handler, once getAllAuthorizedClients has
\* returned: the 500 answer when there is no client, otherwise the fetches of
\* all clients (those of the accounts in failed throw), Promise.all, the
\* combined list sorted, and the 200 answer.  The outer catch would turn an
\* exception of a fetch into the 500 answer.
apiOtps(b, failed) ==
  /\ pc[b] = "done"
  /\ failed \subseteq {clients[b][k].auth[2] : k \in 1..Len(clients[b])}
  /\ pc' = [pc EXCEPT ![b] = "responded"]
  /\ otps' = [otps EXCEPT ![b] =
        [failed |-> failed,
         answer |->
           IF Len(clients[b]) = 0 THEN AnswerNoAccounts
           ELSE LET allOtps == Combine(clients[b], failed, 1)
                IN IF \E k \in 1..Len(clients[b]) :
                         fetchResult(clients[b][k], clients[b][k].auth[2] \in failed).threw
                   THEN [status |-> 500, success |-> FALSE,
                         message |-> "Failed to fetch OTP emails. Please try again.",
                         data |-> <<>>]
                   ELSE AnswerData(SortNewestFirst(allOtps))]]
  /\ UNCHANGED <<credentials, tokenFile, pendingAuths, now, idx, clients,
                 promise, clientCred, cb>>

Next ==
  \/ \E b \in Batches : getAllAuthorizedClients(b)
  \/ \E b \in Batches : getNewToken(b)
  \/ sweep
  \/ Tick
  \/ \E c \in Callbacks, q \in CodeQueries : oauth2callback(c, q)
  \/ \E c \in Callbacks, err \in BOOLEAN, writeOk \in BOOLEAN :
        exchangeCodeForToken(c, err, writeOk)

Spec == Init /\ [][Next]_vars

\* The timer keeps firing and the clock keeps running, and the provider
\* answers every getToken call.
FairSpec ==
  /\ Spec
  /\ WF_vars(sweep)
  /\ WF_vars(Tick)
  /\ \A c \in Callbacks :
        WF_vars(\E err \in BOOLEAN, writeOk \in BOOLEAN : exchangeCodeForToken(c, err, writeOk))

\* The same program receiving every kind of redirect: with an error
\* parameter, without code, without state or with a state that decodes to
\* nothing, besides those that carry a code and an address.  credentials.json
\* is valid here and the first account has no token yet.
CallbackInit ==
  /\ Init
  /\ credentials = "valid"
  /\ tokenFile[getTokenPath(ACCOUNTS[1])] = "absent"

CallbackNext ==
  \/ \E b \in Batches : getAllAuthorizedClients(b)
  \/ \E b \in Batches : getNewToken(b)
  \/ sweep
  \/ Tick
  \/ \E c \in Callbacks, q \in Queries : oauth2callback(c, q)
  \/ \E c \in Callbacks, err \in BOOLEAN, writeOk \in BOOLEAN :
        exchangeCodeForToken(c, err, writeOk)

CallbackSpec == CallbackInit /\ [][CallbackNext]_vars

\* The same program with the /api/otps requests followed to their answer.
\* Here only the second account may lack a readable token, and the redirects
\* are those of that account's consent.
OtpsInit ==
  /\ Init
  /\ tokenFile[getTokenPath(ACCOUNTS[1])] = "stored"

OtpsNext ==
  \/ \E b \in Batches : getAllAuthorizedClients(b)
  \/ \E b \in Batches : getNewToken(b)
  \/ sweep
  \/ Tick
  \/ \E c \in Callbacks :
        oauth2callback(c, [error |-> FALSE, code |-> TRUE,
                           state |-> encodeState(ACCOUNTS[2])])
  \/ \E c \in Callbacks, err \in BOOLEAN, writeOk \in BOOLEAN :
        exchangeCodeForToken(c, err, writeOk)
  \/ \E b \in Batches, failed \in SUBSET (1..NumAccounts) : apiOtps(b, failed)

OtpsSpec == OtpsInit /\ [][OtpsNext]_vars

(* ---------------- steps, as seen from a pair of states ---------------- *)
\* batch b's loop ran in this step, from account number LoopFrom(b) on
Ran(b) == pc[b] \in {"idle", "waiting"} /\ pc'[b] # pc[b]
LoopFrom(b) == IF pc[b] = "idle" THEN 1 ELSE idx[b] + 1
\* the accounts for which getAuthorizedClient was called in this step
Reached(b) ==
  IF Ran(b)
  THEN LoopFrom(b)..(IF idx'[b] > NumAccounts THEN NumAccounts ELSE idx'[b])
  ELSE {}
HasClient(cl, j, w) == \E k \in 1..Len(cl) : cl[k] = [email |-> ACCOUNTS[j], auth |-> w]
\* no entry was added to the table or replaced in it
NothingRegistered ==
  \A e \in DOMAIN pendingAuths' :
     e \in DOMAIN pendingAuths /\ pendingAuths'[e] = pendingAuths[e]
\* callback c arrived in this step
Arrived(c) == cb[c].pc = "idle" /\ cb'[c].pc # "idle"
\* ... and went into exchangeCodeForToken(code, email)
CalledExchange(c, email) ==
  /\ Arrived(c)
  /\ ~cb'[c].query.error
  /\ cb'[c].query.code
  /\ decodeState(cb'[c].query.state) = email
  /\ ~Falsy(email)
\* the getToken callback of c ran in this step
Exchanged(c) == cb[c].pc = "exchanging" /\ cb'[c].pc = "done"

(* ---------------- C1 ---------------- *)
\* C1: when getAuthorizedClient is called for an account whose token file is
\* present and parses (and credentials.json loads, so that the call gets as
\* far as the token), it returns a client seeded with that record - the loop
\* pushes it - and nothing is registered: no promise is created for the call,
\* the loop is not suspended at that account, and the pending table gains or
\* replaces no entry.
C1_StoredCredentialNoPending ==
  [][\A b \in Batches : \A j \in Reached(b) :
       LET content == tokenFile'[getTokenPath(ACCOUNTS[j])]
           w == <<b, j>>
       IN (loadOAuthClient(credentials) = "ok" /\ content \notin {"absent", "corrupt"})
          => /\ HasClient(clients'[b], j, w)
             /\ clientCred'[w] = content
             /\ promise'[w] = "none"
             /\ ~(pc'[b] = "opening" /\ idx'[b] = j)
             /\ NothingRegistered]_vars

C1_Witness ==
  \E b \in Batches : \E j \in 1..NumAccounts :
     /\ HasClient(clients[b], j, <<b, j>>)
     /\ promise[<<b, j>>] = "none"
     /\ clientCred[<<b, j>>] = "stored"
     /\ ACCOUNTS[j] \notin DOMAIN pendingAuths

(* ---------------- C2 ---------------- *)
\* the number of clients the loop of w's batch pushed for the call w
Pushed(w) ==
  Cardinality({k \in 1..Len(clients[w[1]]) : clients[w[1]][k].auth = w})

\* C2: when a callback's exchange succeeds for a pending authorization, the
\* authorize call suspended on it goes on with the success result (its
\* promise is resolved, the client carrying the new token is pushed, the loop
\* leaves that account); it does so once: a resolved promise stays resolved
\* with exactly one client pushed for it, and the table never holds the
\* handlers of a settled promise, so no callback arriving later and no sweep
\* can reach them.
C2_CompletionUnblocksOnce ==
  /\ [][\A c \in Callbacks :
          (Exchanged(c) /\ cb'[c].resp = RespSuccess /\ promise[cb[c].w] = "pending")
          => LET w == cb[c].w
             IN /\ promise'[w] = "resolved"
                /\ HasClient(clients'[w[1]], w[2], w)
                /\ clientCred'[w] = TokenOf(c)
                /\ idx'[w[1]] > w[2]]_vars
  /\ [][\A w \in Waiters : promise[w] = "resolved" => promise'[w] = "resolved"]_vars
  /\ [](\A w \in Waiters : promise[w] = "resolved" => Pushed(w) = 1)
  /\ [](\A e \in DOMAIN pendingAuths : promise[pendingAuths[e].w] = "pending")

C2_Witness ==
  \E c \in Callbacks : \E w \in Waiters :
     /\ cb[c].resp = RespSuccess
     /\ promise[w] = "resolved"
     /\ clientCred[w] = TokenOf(c)
     /\ HasClient(clients[w[1]], w[2], w)

(* ---------------- C3 ---------------- *)
AnyEmail == Emails \cup {UnknownEmail}

\* C3: exchangeCodeForToken for an email that has no entry in the table ends
\* the callback with the "No pending authentication found" error; getToken is
\* not called, no token file is written, and the table, every promise and
\* every client are as they were.
C3_CorrelationMiss ==
  [][\A c \in Callbacks : \A e \in AnyEmail :
       (CalledExchange(c, e) /\ e \notin DOMAIN pendingAuths)
       => /\ cb'[c].pc = "done"
          /\ cb'[c].resp = RespNoPending
          /\ pendingAuths' = pendingAuths
          /\ tokenFile' = tokenFile
          /\ promise' = promise
          /\ clientCred' = clientCred]_vars

C3_Witness ==
  \E c \in Callbacks :
     /\ cb[c].pc = "done"
     /\ cb[c].resp = RespNoPending
     /\ decodeState(cb[c].query.state) \notin DOMAIN pendingAuths
     /\ \E e \in DOMAIN pendingAuths : promise[pendingAuths[e].w] = "pending"

(* ---------------- C4 ---------------- *)
\* what a run of the sweep must have done to each entry
SweepPost ==
  \A e \in DOMAIN pendingAuths :
     LET data == pendingAuths[e]
     IN IF now - data.timestamp > TTL
        THEN e \notin DOMAIN pendingAuths' /\ promise'[data.w] = TimeoutError
        ELSE /\ e \in DOMAIN pendingAuths'
             /\ pendingAuths'[e] = data
             /\ promise'[data.w] = promise[data.w]

AccountNumber(e) == CHOOSE j \in 1..NumAccounts : ACCOUNTS[j] = e

C5_NoWaiterHangs ==
  \A w \in Waiters : (promise[w] = "pending") ~> (promise[w] # "pending")

(* ---------------- C6 ---------------- *)
\* C6: of a completion and the sweep racing for one entry only the first takes
\* effect: when the getToken callback runs for a promise the sweep has already
\* rejected, no token file is written and the callback does not answer
\* success; and an entry whose completion came first is not failed by the
\* sweep.
C6_FirstWriterWins ==
  /\ [][\A c \in Callbacks :
          (Exchanged(c) /\ promise[cb[c].w] = TimeoutError)
          => tokenFile' = tokenFile /\ cb'[c].resp # RespSuccess]_vars
  /\ [][\A w \in Waiters :
          promise[w] \in {"resolved", ExchangeError} => promise'[w] = promise[w]]_vars

(* ---------------- C7 ---------------- *)
\* C7: once a callback has completed a pending authorization, a further
\* callback carrying the same state is answered "No pending authentication
\* found": it does not reach getToken and changes neither the token files nor
\* any promise.
C7_SecondCallbackIsMiss ==
  [][\A c \in Callbacks : \A e \in Emails :
       (/\ CalledExchange(c, e)
        /\ \E c1 \in Callbacks \ {c} :
              /\ cb[c1].pc = "done"
              /\ cb[c1].resp = RespSuccess
              /\ cb[c1].query.state = cb'[c].query.state)
       => /\ cb'[c].pc = "done"
          /\ cb'[c].resp = RespNoPending
          /\ tokenFile' = tokenFile
          /\ promise' = promise]_vars

(* ---------------- C8 ---------------- *)
\* the authorization of account number j went well for batch b: the stored
\* token was used, or the promise of getNewToken was resolved
Succeeded(b, j) ==
  \/ promise[<<b, j>>] = "resolved"
  \/ promise[<<b, j>>] = "none" /\ clientCred[<<b, j>>] # "none"

\* C8: getAllAuthorizedClients never ends by throwing; when the promise it
\* awaits is rejected (failed exchange or timeout) the loop keeps the clients
\* it has and goes on with the next account; and when it returns, clients
\* holds a client for exactly the accounts whose own authorization went well.
C8_BatchNeverThrows ==
  /\ [](\A b \in Batches : pc[b] # "threw")
  /\ [][\A b \in Batches :
          (pc[b] = "waiting" /\ promise'[<<b, idx[b]>>] \in {TimeoutError, ExchangeError})
          => /\ pc'[b] \in {"opening", "done"}
             /\ idx'[b] > idx[b]
             /\ Len(clients'[b]) >= Len(clients[b])
             /\ SubSeq(clients'[b], 1, Len(clients[b])) = clients[b]]_vars
  /\ [](\A b \in Batches : pc[b] = "done" =>
          /\ \A j \in 1..NumAccounts : Succeeded(b, j) => HasClient(clients[b], j, <<b, j>>)
          /\ \A k \in 1..Len(clients[b]) :
                /\ clients[b][k].auth[1] = b
                /\ Succeeded(b, clients[b][k].auth[2]))

C8_Witness ==
  \E b \in Batches : \E i, j \in 1..NumAccounts :
     /\ pc[b] = "done"
     /\ promise[<<b, i>>] \in {TimeoutError, ExchangeError}
     /\ j > i
     /\ HasClient(clients[b], j, <<b, j>>)

(* ---------------- C9 ---------------- *)
\* C9: the accounts of one batch do not wait for each other: while the batch
\* is suspended on an account that needs consent, every other account whose
\* token was stored from the start already has its ready result.
C9_ReadyResultsNotBlocked ==
  \A b \in Batches : \A j \in 1..NumAccounts :
     (/\ pc[b] = "waiting"
      /\ j # idx[b]
      /\ loadOAuthClient(credentials) = "ok"
      /\ tokenFile[getTokenPath(ACCOUNTS[j])] = "stored")
     => HasClient(clients[b], j, <<b, j>>)

(* ---------------- C10 ---------------- *)
\* batch b stored its handlers in the table in this step
Registered(b) == pc[b] = "opening" /\ pc'[b] = "waiting"

\* C10: a registration for an account replaces whatever entry the account
\* had (the last registration wins) and entries change in no other way; a
\* callback takes the handlers it finds in the table, that is those of the
\* last registration; and its completion settles the promise it took and no
\* other, so it never resolves both waiters.
C10_LastRegistrationWins ==
  /\ [][\A b \in Batches : Registered(b) =>
          LET e == ACCOUNTS[idx[b]]
          IN /\ DOMAIN pendingAuths' = DOMAIN pendingAuths \cup {e}
             /\ pendingAuths'[e] = [w |-> <<b, idx[b]>>, timestamp |-> now]
             /\ \A x \in DOMAIN pendingAuths \ {e} : pendingAuths'[x] = pendingAuths[x]]_vars
  /\ [][\A e \in DOMAIN pendingAuths \cap DOMAIN pendingAuths' :
          pendingAuths'[e] # pendingAuths[e]
          => \E b \in Batches : Registered(b) /\ ACCOUNTS[idx[b]] = e]_vars
  /\ [][\A c \in Callbacks : \A e \in Emails :
          (CalledExchange(c, e) /\ e \in DOMAIN pendingAuths)
          => cb'[c].pc = "exchanging" /\ cb'[c].w = pendingAuths[e].w]_vars
  /\ [][\A c \in Callbacks : Exchanged(c) =>
          \A w \in Waiters \ {cb[c].w} : promise'[w] = promise[w]]_vars

C10_Witness ==
  \E j \in 1..NumAccounts : \E b1, b2 \in Batches :
     /\ b1 # b2
     /\ promise[<<b1, j>>] = "pending"
     /\ promise[<<b2, j>>] = "resolved"
     /\ ACCOUNTS[j] \notin DOMAIN pendingAuths
     /\ Cardinality({c \in Callbacks : cb[c].pc # "idle"}) = 1

(* ---------------- C11 ---------------- *)
\* every address of at most MaxEmailLen characters of the model
RoundTripInputs == UNION {[1..n -> DOMAIN Byte] : n \in 1..MaxEmailLen}
StateRoundTrip ==
  \A e \in Emails \cup RoundTripInputs : decodeState(encodeState(e)) = e

\* C11: the state getNewToken puts into the authorization URL of an account,
\* decoded as the callback handler decodes it, is that account's address (for
\* the configured accounts and for every address up to MaxEmailLen, whatever
\* the padding); so a callback carrying that state and a code looks up the
\* entry of that account: it takes that entry's handlers, or is answered
\* "No pending authentication found" when the account has none.
C11_StateRoundTrip ==
  /\ [](StateRoundTrip)
  /\ [][\A c \in Callbacks : \A j \in 1..NumAccounts :
          (/\ Arrived(c)
           /\ ~cb'[c].query.error
           /\ cb'[c].query.code
           /\ cb'[c].query.state = encodeState(ACCOUNTS[j]))
          => IF ACCOUNTS[j] \in DOMAIN pendingAuths
             THEN /\ cb'[c].pc = "exchanging"
                  /\ cb'[c].email = ACCOUNTS[j]
                  /\ cb'[c].w = pendingAuths[ACCOUNTS[j]].w
             ELSE cb'[c].pc = "done" /\ cb'[c].resp = RespNoPending]_vars

C11_Witness ==
  \E c \in Callbacks : \E j \in 1..NumAccounts :
     /\ cb[c].pc = "exchanging"
     /\ cb[c].query.state = encodeState(ACCOUNTS[j])
     /\ cb[c].email = ACCOUNTS[j]
     /\ \E e \in DOMAIN pendingAuths : e # ACCOUNTS[j]

(* ---------------- C12 ---------------- *)
\* C12: the callback path only completes the pending authorization; the
\* token file is written by the authorize flow once its waiter has been
\* unblocked, never by the callback handler.  Seen from the store: a token
\* file changes only in a step in which an authorize call suspended on that
\* account is unblocked with success.
C12_OrchestratorPersists ==
  [][\A j \in 1..NumAccounts :
       tokenFile'[getTokenPath(ACCOUNTS[j])] # tokenFile[getTokenPath(ACCOUNTS[j])]
       => \E b \in Batches :
             /\ pc[b] = "waiting"
             /\ idx[b] = j
             /\ promise[<<b, j>>] = "pending"
             /\ promise'[<<b, j>>] = "resolved"]_vars

(* ---------------- C13 ---------------- *)
\* the response the handler owes to a redirect with query q arriving now, or
\* NoResp when it goes on to the code exchange
ResponseOnArrival(q) ==
  IF q.error THEN RespProviderError
  ELSE IF ~q.code THEN RespMissingCode
  ELSE IF q.state = NoState \/ decodeState(q.state) = <<>> THEN RespInvalidRequest
  ELSE IF decodeState(q.state) \notin DOMAIN pendingAuths THEN RespNoPending
  ELSE NoResp

\* C13: the response of /oauth2callback is fixed by the condition the handler
\* hits - provider error, missing code, state absent or undecodable, no
\* pending entry, failed exchange, success - and the six responses differ
\* pairwise (in status, title or message); a correlation miss differs from
\* the decode failure and from the exchange failure.
C13_DistinctResponses ==
  /\ [][\A c \in Callbacks : Arrived(c) =>
          /\ cb'[c].resp = ResponseOnArrival(cb'[c].query)
          /\ cb'[c].pc = IF cb'[c].resp = NoResp THEN "exchanging" ELSE "done"]_vars
  /\ [][\A c \in Callbacks : Exchanged(c) =>
          /\ cb'[c].resp \in {RespSuccess, RespExchangeFailed}
          /\ cb'[c].resp = RespSuccess <=> clientCred'[cb[c].w] = TokenOf(c)
          /\ (cb'[c].resp = RespExchangeFailed /\ promise[cb[c].w] = "pending")
                => promise'[cb[c].w] = ExchangeError]_vars
  /\ [](Cardinality({RespProviderError, RespMissingCode, RespInvalidRequest,
                     RespNoPending, RespExchangeFailed, RespSuccess}) = 6)
  /\ [](RespNoPending # RespInvalidRequest /\ RespNoPending # RespExchangeFailed)
  /\ [](\A c \in Callbacks : cb[c].pc = "done" <=> cb[c].resp # NoResp)

C13_Witness ==
  \E c1, c2 \in Callbacks :
     /\ cb[c1].resp = RespNoPending
     /\ cb[c2].resp = RespExchangeFailed

(* ---------------- C14 ---------------- *)
\* C14: a redirect that carries a code but whose state is absent, decodes to
\* nothing, or decodes to no configured account, is answered with an error
\* page ("Invalid Request" in the first two cases); getToken is not called,
\* and the table, the token files, the promises and the suspended loops are
\* as before.  The handler returns normally: the request is done and later
\* redirects are served.
C14_BadStateIsHarmless ==
  /\ [][\A c \in Callbacks :
          (/\ Arrived(c)
           /\ ~cb'[c].query.error
           /\ cb'[c].query.code
           /\ decodeState(cb'[c].query.state) \notin Emails)
          => /\ cb'[c].pc = "done"
             /\ cb'[c].resp.status \in {400, 500}
             /\ (cb'[c].query.state \in {NoState, GarbageState}
                   => cb'[c].resp = RespInvalidRequest)
             /\ UNCHANGED <<pendingAuths, tokenFile, promise, clientCred,
                            pc, idx, clients>>]_vars
  /\ [](\A c \in Callbacks : cb[c].resp = RespInvalidRequest => cb[c].pc = "done")

C14_Witness ==
  \E c1, c2 \in Callbacks :
     /\ c1 < c2
     /\ cb[c1].resp = RespInvalidRequest
     /\ cb[c1].query.state = GarbageState
     /\ cb[c2].resp = RespSuccess

(* ---------------- C15 ---------------- *)
\* C15: when getToken fails for a callback, the callback is answered with the
\* exchange-failure page and is over (one attempt: it never goes back to
\* exchanging); no token file is written; the account has no entry left; the
\* waiter the callback took, if still pending, is rejected with the
\* exchange-failure error - and the waiter of whatever entry the step removed
\* is rejected with it; later callbacks for the account are misses as long as
\* no getNewToken has registered it again.
C15_ExchangeFailure ==
  /\ [][\A c \in Callbacks :
          (Exchanged(c) /\ cb'[c].resp = RespExchangeFailed)
          => /\ tokenFile' = tokenFile
             /\ cb[c].email \notin DOMAIN pendingAuths'
             /\ promise[cb[c].w] = "pending" => promise'[cb[c].w] = ExchangeError
             /\ \A e \in DOMAIN pendingAuths \ DOMAIN pendingAuths' :
                   promise'[pendingAuths[e].w] = ExchangeError]_vars
  /\ [][\A c \in Callbacks : cb[c].pc = "done" => cb'[c] = cb[c]]_vars
  /\ [][\A e \in DOMAIN pendingAuths' \ DOMAIN pendingAuths :
          \E b \in Batches : Registered(b) /\ ACCOUNTS[idx[b]] = e]_vars
  /\ [][\A c \in Callbacks : \A e \in Emails :
          (CalledExchange(c, e) /\ e \notin DOMAIN pendingAuths)
          => cb'[c].resp = RespNoPending]_vars

(* ---------------- C16 ---------------- *)
\* C16: readJsonFile gives null for a token file that is missing and for one
\* that cannot be read or parsed, and getAuthorizedClient then neither throws
\* nor returns a client: for both it goes into getNewToken in the same way
\* (the loop is suspended at that account with nothing pushed), and
\* getNewToken creates the promise and registers the account's entry.
C16_UnreadableIsAbsent ==
  /\ [](readJsonFile("absent") = "null" /\ readJsonFile("corrupt") = "null")
  /\ [](\A e \in Emails :
          LET missing == [tokenFile EXCEPT ![getTokenPath(e)] = "absent"]
              broken == [tokenFile EXCEPT ![getTokenPath(e)] = "corrupt"]
          IN /\ getAuthorizedClient(broken, e) = getAuthorizedClient(missing, e)
             /\ loadOAuthClient(credentials) = "ok"
                  => getAuthorizedClient(broken, e).kind = "getNewToken")
  /\ [][\A b \in Batches : \A j \in Reached(b) :
          (/\ loadOAuthClient(credentials) = "ok"
           /\ tokenFile'[getTokenPath(ACCOUNTS[j])] \in {"absent", "corrupt"})
          => /\ pc'[b] = "opening"
             /\ idx'[b] = j
             /\ ~HasClient(clients'[b], j, <<b, j>>)
             /\ promise'[<<b, j>>] = "none"]_vars
  /\ [][\A b \in Batches : Registered(b) =>
          /\ promise'[<<b, idx[b]>>] = "pending"
          /\ ACCOUNTS[idx[b]] \in DOMAIN pendingAuths'
          /\ pendingAuths'[ACCOUNTS[idx[b]]].w = <<b, idx[b]>>]_vars

C16_Witness ==
  \E b \in Batches :
     /\ pc[b] = "waiting"
     /\ tokenFile[getTokenPath(ACCOUNTS[idx[b]])] = "corrupt"
     /\ ACCOUNTS[idx[b]] \in DOMAIN pendingAuths
     /\ pendingAuths[ACCOUNTS[idx[b]]].w = <<b, idx[b]>>

(* ---------------- C17 ---------------- *)
\* C17: when getToken has succeeded (the token is set on the client) and the
\* write of the token file fails, nothing is propagated: the callback is
\* answered with the success page, and the waiter, if still pending, is
\* resolved and its client, carrying the token, is pushed; only the file is
\* as before.  An authorize call that later finds the file still missing or
\* unreadable goes into the consent flow again.
C17_WriteFailureNotFatal ==
  /\ [][\A c \in Callbacks :
          (/\ Exchanged(c)
           /\ clientCred'[cb[c].w] = TokenOf(c)
           /\ tokenFile' = tokenFile)
          => /\ cb'[c].resp = RespSuccess
             /\ promise[cb[c].w] = "pending"
                  => /\ promise'[cb[c].w] = "resolved"
                     /\ HasClient(clients'[cb[c].w[1]], cb[c].w[2], cb[c].w)]_vars
  /\ [][\A b \in Batches : \A j \in Reached(b) :
          (/\ pc[b] = "idle"
           /\ loadOAuthClient(credentials) = "ok"
           /\ \E c \in Callbacks :
                 /\ cb[c].resp = RespSuccess
                 /\ decodeState(cb[c].query.state) = ACCOUNTS[j]
           /\ tokenFile[getTokenPath(ACCOUNTS[j])] \in {"absent", "corrupt"})
          => pc'[b] = "opening" /\ idx'[b] = j]_vars

C17_Witness ==
  \E c \in Callbacks : \E w \in Waiters : \E b \in Batches :
     /\ cb[c].resp = RespSuccess
     /\ promise[w] = "resolved"
     /\ clientCred[w] = TokenOf(c)
     /\ HasClient(clients[w[1]], w[2], w)
     /\ tokenFile[getTokenPath(ACCOUNTS[w[2]])] \in {"absent", "corrupt"}
     /\ b # w[1]
     /\ pc[b] = "opening"
     /\ idx[b] = w[2]
     /\ pc[w[1]] = "done"

(* ---------------- C18 ---------------- *)
\* the state parameter getNewToken put into the authorization URL of call w
StateOf(w) == encodeState(ACCOUNTS[w[2]])

\* C18: every registration carries a correlation token of its own: the states
\* of two getNewToken calls that have registered differ, also when both are
\* for the same account, and a state is not just the encoded address.
C18_FreshCorrelationToken ==
  /\ \A w1, w2 \in Waiters :
        (w1 # w2 /\ promise[w1] # "none" /\ promise[w2] # "none")
        => StateOf(w1) # StateOf(w2)
  /\ \A w \in Waiters :
        promise[w] # "none" => decodeState(StateOf(w)) # ACCOUNTS[w[2]]

(* ---------------- C19 ---------------- *)
\* C19: within an account's flow the steps come in the order load, consent,
\* exchange, persist.  A token file is written only by a getToken callback
\* that succeeded for that account; a callback goes to getToken only when the
\* account has an entry, whose promise is pending; an entry is created only
\* by a getNewToken call, and a loop enters getNewToken for an account only
\* in a step in which it found that account's token file missing or
\* unreadable.
C19_FlowOrder ==
  /\ [][\A j \in 1..NumAccounts :
          tokenFile'[getTokenPath(ACCOUNTS[j])] # tokenFile[getTokenPath(ACCOUNTS[j])]
          => \E c \in Callbacks :
                /\ Exchanged(c)
                /\ cb[c].email = ACCOUNTS[j]
                /\ cb'[c].resp = RespSuccess
                /\ tokenFile'[getTokenPath(ACCOUNTS[j])] = TokenOf(c)]_vars
  /\ [][\A c \in Callbacks :
          (cb[c].pc # "exchanging" /\ cb'[c].pc = "exchanging")
          => /\ cb'[c].email \in DOMAIN pendingAuths
             /\ cb'[c].w = pendingAuths[cb'[c].email].w
             /\ promise[cb'[c].w] = "pending"]_vars
  /\ [][\A e \in DOMAIN pendingAuths' :
          (e \notin DOMAIN pendingAuths \/ pendingAuths'[e] # pendingAuths[e])
          => \E b \in Batches :
                /\ Registered(b)
                /\ ACCOUNTS[idx[b]] = e
                /\ promise[<<b, idx[b]>>] = "none"]_vars
  /\ [][\A b \in Batches :
          (pc[b] # "opening" /\ pc'[b] = "opening")
          => tokenFile'[getTokenPath(ACCOUNTS[idx'[b]])] \in {"absent", "corrupt"}]_vars

C19_Witness ==
  \E c \in Callbacks : \E w \in Waiters :
     /\ cb[c].resp = RespSuccess
     /\ decodeState(cb[c].query.state) = ACCOUNTS[w[2]]
     /\ promise[w] = "resolved"
     /\ clientCred[w] = TokenOf(c)
     /\ tokenFile[getTokenPath(ACCOUNTS[w[2]])] = TokenOf(c)

(* ---------------- C20 ---------------- *)
\* C20: the table never holds two entries of one account: whatever the keys,
\* at most one entry belongs to a getNewToken call for a given account - and
\* it is filed under that account's address.
C20_OneEntryPerAccount ==
  /\ \A j \in 1..NumAccounts :
        Cardinality({k \in DOMAIN pendingAuths : pendingAuths[k].w[2] = j}) <= 1
  /\ \A k \in DOMAIN pendingAuths : k = ACCOUNTS[pendingAuths[k].w[2]]

C20_Witness ==
  \E j \in 1..NumAccounts : \E b1, b2 \in Batches :
     /\ b1 # b2
     /\ promise[<<b1, j>>] = "pending"
     /\ promise[<<b2, j>>] = "pending"
     /\ ACCOUNTS[j] \in DOMAIN pendingAuths

(* ---------------- C21 ---------------- *)
\* C21: each account has one token file of its own (getTokenPath maps the
\* accounts to distinct paths and the store holds exactly those); a file that
\* exists is never removed; no step other than a successful exchange - loop,
\* registration, callback arrival, failed exchange, sweep, clock - changes
\* any file; and a file is created or
\* replaced only by the getToken callback that succeeded for the account the
\* file belongs to.
C21_RecordsOnlyByExchange ==
  /\ [](\A i, j \in 1..NumAccounts :
          i # j => getTokenPath(ACCOUNTS[i]) # getTokenPath(ACCOUNTS[j]))
  /\ [](DOMAIN tokenFile = Paths /\ Cardinality(Paths) = NumAccounts)
  /\ [][\A path \in Paths :
          tokenFile[path] # "absent" => tokenFile'[path] # "absent"]_vars
  /\ [][(\A c \in Callbacks : ~(Exchanged(c) /\ cb'[c].resp = RespSuccess))
        => tokenFile' = tokenFile]_vars
  /\ [][\A j \in 1..NumAccounts :
          tokenFile'[getTokenPath(ACCOUNTS[j])] # tokenFile[getTokenPath(ACCOUNTS[j])]
          => \E c \in Callbacks :
                /\ Exchanged(c)
                /\ decodeState(cb[c].query.state) = ACCOUNTS[j]
                /\ clientCred'[cb[c].w] = TokenOf(c)
                /\ tokenFile'[getTokenPath(ACCOUNTS[j])] = TokenOf(c)]_vars

C21_Witness ==
  \E c1, c2 \in Callbacks : \E j \in 1..NumAccounts :
     /\ c1 # c2
     /\ cb[c1].resp = RespSuccess
     /\ cb[c2].resp = RespSuccess
     /\ decodeState(cb[c1].query.state) = ACCOUNTS[j]
     /\ decodeState(cb[c2].query.state) = ACCOUNTS[j]
     /\ tokenFile[getTokenPath(ACCOUNTS[j])] = TokenOf(c1)
     /\ clientCred[<<1, j>>] # clientCred[<<2, j>>]
     /\ clientCred[<<1, j>>] # "none"
     /\ clientCred[<<2, j>>] # "none"

(* ---------------- C22 ---------------- *)
\* C22: when credentials.json cannot be used, getAllAuthorizedClients stops
\* at once with that configuration error: the loop does not go on to try the
\* other accounts, and the request is answered with the configuration error,
\* not with the answer given when the accounts failed to authenticate.
C22_ConfigErrorIsFatal ==
  /\ \A b \in Batches :
        (loadOAuthClient(credentials) # "ok" /\ pc[b] # "idle") => idx[b] = 1
  /\ \A b \in Batches :
        (loadOAuthClient(credentials) # "ok" /\ pc[b] = "responded")
        => /\ otps[b].answer.message = loadOAuthClient(credentials)
           /\ otps[b].answer # AnswerNoAccounts

(* ---------------- C23 ---------------- *)
\* the mails of account number j in a list of mails
MailsOf(data, j) == SelectSeq(data, LAMBDA r : r.accountEmail = ACCOUNTS[j])
ClientAccounts(b) == {clients[b][k].auth[2] : k \in 1..Len(clients[b])}

\* C23: when the fetch of some clients throws, the request is still answered
\* 200 with success: the data hold no mail of the accounts whose fetch
\* failed and all the mails of every other client, newest first, and nothing
\* else.
C23_FetchFailureIsolated ==
  [][\A b \in Batches :
       (pc[b] = "done" /\ pc'[b] = "responded" /\ Len(clients[b]) > 0)
       => LET failed == otps'[b].failed
              data == otps'[b].answer.data
          IN /\ failed \subseteq ClientAccounts(b)
             /\ otps'[b].answer.status = 200
             /\ otps'[b].answer.success
             /\ \A j \in failed : MailsOf(data, j) = <<>>
             /\ \A j \in ClientAccounts(b) \ failed : MailsOf(data, j) = Mail[j]
             /\ \A j \in (1..NumAccounts) \ ClientAccounts(b) : MailsOf(data, j) = <<>>
             /\ \A k \in 1..(Len(data) - 1) :
                   data[k].timeReceived >= data[k + 1].timeReceived]_vars

C23_Witness ==
  \E b \in Batches : \E j \in ClientAccounts(b) :
     /\ pc[b] = "responded"
     /\ otps[b].failed # {}
     /\ j \notin otps[b].failed
     /\ otps[b].answer.success
     /\ MailsOf(otps[b].answer.data, j) = Mail[j]
     /\ \A i \in otps[b].failed : MailsOf(otps[b].answer.data, i) = <<>>

(* ---------------- C24 ---------------- *)
\* C24: when the authorization URL of an account has been handed to the
\* browser (the getNewToken call is at or past open(authUrl)), the account's
\* entry is already in the table; so a callback for the account that arrives
\* while a call is at open(authUrl) is not answered "No pending
\* authentication found".
C24_RegisteredBeforeUrl ==
  /\ [](\A b \in Batches :
          pc[b] = "opening" => ACCOUNTS[idx[b]] \in DOMAIN pendingAuths)
  /\ [][\A c \in Callbacks : \A b \in Batches :
          (pc[b] = "opening" /\ CalledExchange(c, ACCOUNTS[idx[b]]))
          => cb'[c].resp # RespNoPending]_vars

(* ---------------- C25 ---------------- *)
\* C25: of the callbacks that carry the state of one pending authorization
\* at most one gets to getToken: no two callbacks are in their exchange with
\* the handlers of the same getNewToken call, because the callback that
\* finds the entry takes it out of the table in the same step; hence at most
\* one of them writes the token file.
C25_AtMostOneExchange ==
  /\ [](\A w \in Waiters :
          Cardinality({c \in Callbacks : cb[c].pc = "exchanging" /\ cb[c].w = w}) <= 1)
  /\ [][\A c \in Callbacks : \A e \in Emails :
          (CalledExchange(c, e) /\ e \in DOMAIN pendingAuths)
          => e \notin DOMAIN pendingAuths']_vars

(* ---------------- C26 ---------------- *)
\* C26: a redirect with the provider's error parameter, or without a code, is
\* answered with its error page and is over; the table, the token files, the
\* promises and the suspended loops are as before, so the entry of the
\* account stays registered and its waiter pending.  A pending waiter is
\* settled only by the getToken callback of a redirect that took its
\* handlers (resolved or rejected with the exchange failure) or by the sweep
\* removing its expired entry (rejected with the timeout).
C26_ErrorCallbackTouchesNothing ==
  /\ [][\A c \in Callbacks :
          (Arrived(c) /\ (cb'[c].query.error \/ ~cb'[c].query.code))
          => /\ cb'[c].pc = "done"
             /\ cb'[c].resp = IF cb'[c].query.error THEN RespProviderError
                              ELSE RespMissingCode
             /\ cb'[c].resp.status = 400
             /\ UNCHANGED <<pendingAuths, tokenFile, promise, clientCred,
                            pc, idx, clients>>]_vars
  /\ [][\A w \in Waiters :
          (promise[w] = "pending" /\ promise'[w] # "pending")
          => \/ \E c \in Callbacks :
                  /\ Exchanged(c)
                  /\ cb[c].w = w
                  /\ promise'[w] \in {"resolved", ExchangeError}
             \/ \E e \in Expired(pendingAuths, now) :
                  /\ pendingAuths[e].w = w
                  /\ e \notin DOMAIN pendingAuths'
                  /\ promise'[w] = TimeoutError]_vars

\* the provider reported an error for the first account while its
\* authorization is registered and its waiter pending, and another redirect
\* is in its exchange with that waiter's handlers
C26_Witness ==
  \E c1, c2 \in Callbacks :
     /\ c1 < c2
     /\ cb[c1].resp = RespProviderError
     /\ decodeState(cb[c1].query.state) = ACCOUNTS[1]
     /\ ACCOUNTS[1] \in DOMAIN pendingAuths
     /\ promise[pendingAuths[ACCOUNTS[1]].w] = "pending"
     /\ cb[c2].pc = "exchanging"
     /\ cb[c2].w = pendingAuths[ACCOUNTS[1]].w

(* ---------------- C27 ---------------- *)
\* C27: the getToken callback of a redirect for account X, whether the
\* exchange succeeded or failed, leaves every other account as it was: an
\* entry of another account is in the table afterwards exactly when it was
\* before and is the same entry, the promise of every waiter of another
\* account is unchanged, and the token file of every other account is
\* unchanged.
C27_CompletionIsLocal ==
  [][\A c \in Callbacks : Exchanged(c) =>
        \A e \in Emails \ {cb[c].email} :
           /\ e \in DOMAIN pendingAuths' <=> e \in DOMAIN pendingAuths
           /\ e \in DOMAIN pendingAuths => pendingAuths'[e] = pendingAuths[e]
           /\ tokenFile'[getTokenPath(e)] = tokenFile[getTokenPath(e)]
           /\ \A b \in Batches :
                 promise'[<<b, AccountNumber(e)>>] = promise[<<b, AccountNumber(e)>>]]_vars

\* both outcomes for the first account, with the second account's
\* authorization registered and its waiter pending
C27_Witness ==
  \E c1, c2 \in Callbacks :
     /\ cb[c1].resp = RespSuccess
     /\ cb[c2].resp = RespExchangeFailed
     /\ decodeState(cb[c1].query.state) = ACCOUNTS[1]
     /\ decodeState(cb[c2].query.state) = ACCOUNTS[1]
     /\ ACCOUNTS[2] \in DOMAIN pendingAuths
     /\ promise[pendingAuths[ACCOUNTS[2]].w] = "pending"

PromiseStates == {"none", "pending", "resolved", TimeoutError, ExchangeError}

TypeOK ==
  /\ now \in 0..MaxTime
  /\ DOMAIN pendingAuths \subseteq Emails
  /\ \A e \in DOMAIN pendingAuths : pendingAuths[e].w \in Waiters
  /\ promise \in [Waiters -> PromiseStates]
  /\ \A b \in Batches : pc[b] \in {"idle", "opening", "waiting", "done", "responded"}
  /\ \A b \in Batches : pc[b] = "responded" <=> otps[b].answer # NoAnswer
  /\ \A b \in Batches : pc[b] = "waiting" <=> promise[<<b, idx[b]>>] = "pending"
  /\ \A c \in Callbacks : cb[c].pc \in {"idle", "exchanging", "done"}
====
